---- MODULE Spec2Model ----
(***************************************************************************)
(* A model of the bintree crate (src/lib.rs): an unbalanced binary search  *)
(* tree behind the Tree<K,V> trait (get / put / remove / is_empty / clear).*)
(*                                                                         *)
(* Option<T> is modelled as a sequence of length 0 (None) or 1 (Some(x)).  *)
(* A BinaryTreeNode is a record [key, value, left, right] whose children   *)
(* are Options of nodes, as in the struct.  Every &mut self method is an   *)
(* operator from the receiver to a record holding the receiver after the   *)
(* call, the returned value and whether an unwrap() hit None (a panic).    *)
(***************************************************************************)
EXTENDS Integers, Sequences, FiniteSets, TLC

\* ------------------------------------------------------------- bounds
MaxKey == 4

Keys == 1..MaxKey
Values == {"hello", "goodbye"}

\* ------------------------------------------------------------- Option
None == << >>
Some(x) == << x >>
is_some(o) == Len(o) > 0
is_none(o) == Len(o) = 0
unwrap(o) == o[1]

\* ----------------------------------------------------- BinaryTreeNode
new(key, value) ==
    [key |-> key, value |-> value, left |-> None, right |-> None]

RECURSIVE min_key_value(_)
RECURSIVE find(_, _)
RECURSIVE append(_, _)
RECURSIVE remove_descendent(_, _)
RECURSIVE remove_left(_)
RECURSIVE remove_right(_)
RECURSIVE take_subtree(_)
RECURSIVE take_right_min_subtree(_)

\* min_key_value that answers with the node it is called on, without the
\* descent along the left children.
min_key_value_no_descent(self) ==
    << self.key, self.value >>

\* fn min_key_value(&self) -> (K, V)
min_key_value(self) ==
    IF is_none(self.left)
    THEN << self.key, self.value >>
    ELSE min_key_value(unwrap(self.left))

\* pub fn find(&self, key: &K) -> Option<&V>
find(self, key) ==
    IF key = self.key THEN Some(self.value)
    ELSE IF key < self.key
         THEN (IF is_none(self.left) THEN None
               ELSE find(unwrap(self.left), key))
         ELSE (IF is_none(self.right) THEN None
               ELSE find(unwrap(self.right), key))

\* insert_left that stores the node in the slot whether or not it is taken.
insert_left_overwrites_slot(self, node) ==
    [self EXCEPT !.left = Some(node)]

\* fn insert_left(&mut self, node)
insert_left(self, node) ==
    IF is_none(self.left)
    THEN [self EXCEPT !.left = Some(node)]
    ELSE [self EXCEPT !.left = Some(append(unwrap(self.left), node))]

\* fn insert_right(&mut self, node)
insert_right(self, node) ==
    IF is_none(self.right)
    THEN [self EXCEPT !.right = Some(node)]
    ELSE [self EXCEPT !.right = Some(append(unwrap(self.right), node))]

\* append with the equal-key arm leaving self.value as it was.
append_keep_value(self, node) ==
    IF node.key < self.key THEN insert_left(self, node)
    ELSE IF node.key = self.key THEN self
    ELSE insert_right(self, node)

\* append without the equal-key arm: an equal key is inserted to the right.
append_no_equal_arm(self, node) ==
    IF node.key < self.key THEN insert_left(self, node)
    ELSE insert_right(self, node)

\* pub fn append(&mut self, node)
append(self, node) ==
    IF node.key < self.key THEN insert_left(self, node)
    ELSE IF node.key = self.key THEN [self EXCEPT !.value = node.value]
    ELSE insert_right(self, node)

\* fn take_right_min_subtree(&mut self) -> Box<BinaryTreeNode>
\* self.right.as_ref().unwrap() panics when there is no right child.
take_right_min_subtree(self) ==
    IF is_none(self.right)
    THEN [node |-> self, panic |-> TRUE]
    ELSE LET mkv == min_key_value(unwrap(self.right))
             min_key == mkv[1]
             min_value == mkv[2]
             copied_key == min_key
             new_node == [key |-> min_key, value |-> min_value,
                          left |-> self.left, right |-> self.right]
             r == remove_descendent(new_node, copied_key)
         IN  [node |-> r.self, panic |-> r.panic]

\* take_subtree with the two one-child arms taking the wrong (empty) side.
take_subtree_wrong_side(self) ==
    IF is_none(self.left) /\ is_none(self.right)
    THEN [sub |-> None, panic |-> FALSE]
    ELSE IF is_some(self.left) /\ is_none(self.right)
    THEN [sub |-> self.right, panic |-> FALSE]
    ELSE IF is_none(self.left) /\ is_some(self.right)
    THEN [sub |-> self.left, panic |-> FALSE]
    ELSE LET t == take_right_min_subtree(self)
         IN  [sub |-> Some(t.node), panic |-> t.panic]

\* take_subtree with the (Some, None) arm promoting a successor as well.
take_subtree_min_without_right(self) ==
    IF is_none(self.left) /\ is_none(self.right)
    THEN [sub |-> None, panic |-> FALSE]
    ELSE IF is_none(self.left) /\ is_some(self.right)
    THEN [sub |-> self.right, panic |-> FALSE]
    ELSE LET t == take_right_min_subtree(self)
         IN  [sub |-> Some(t.node), panic |-> t.panic]

\* fn take_subtree(&mut self) -> Option<Box<BinaryTreeNode>>
take_subtree(self) ==
    IF is_none(self.left) /\ is_none(self.right)
    THEN [sub |-> None, panic |-> FALSE]
    ELSE IF is_some(self.left) /\ is_none(self.right)
    THEN [sub |-> self.left, panic |-> FALSE]
    ELSE IF is_none(self.left) /\ is_some(self.right)
    THEN [sub |-> self.right, panic |-> FALSE]
    ELSE LET t == take_right_min_subtree(self)
         IN  [sub |-> Some(t.node), panic |-> t.panic]

\* remove_left that leaves the slot empty after self.left.take(), without
\* storing what take_subtree returns.
remove_left_slot_left_empty(self) ==
    IF is_none(self.left)
    THEN [self |-> self, ret |-> None, panic |-> TRUE]
    ELSE LET removed_left == unwrap(self.left)
             t == take_subtree(removed_left)
         IN  [self |-> [self EXCEPT !.left = None],
              ret |-> Some(removed_left.value),
              panic |-> t.panic]

\* fn remove_left(&mut self) -> Option<V>
\* self.left.take().unwrap() panics when there is no left child.
remove_left(self) ==
    IF is_none(self.left)
    THEN [self |-> self, ret |-> None, panic |-> TRUE]
    ELSE LET removed_left == unwrap(self.left)
             t == take_subtree(removed_left)
         IN  [self |-> [self EXCEPT !.left = t.sub],
              ret |-> Some(removed_left.value),
              panic |-> t.panic]

\* fn remove_right(&mut self) -> Option<V>
\* self.right.take().unwrap() panics when there is no right child.
remove_right(self) ==
    IF is_none(self.right)
    THEN [self |-> self, ret |-> None, panic |-> TRUE]
    ELSE LET removed_right == unwrap(self.right)
             t == take_subtree(removed_right)
         IN  [self |-> [self EXCEPT !.right = t.sub],
              ret |-> Some(removed_right.value),
              panic |-> t.panic]

\* remove_descendent with the right-hand descent testing  *key > self.key .
remove_descendent_right_greater(self, key) ==
    IF is_some(self.left) /\ unwrap(self.left).key = key
    THEN remove_left(self)
    ELSE IF is_some(self.left) /\ key < self.key
    THEN LET r == remove_descendent(unwrap(self.left), key)
         IN  [self |-> [self EXCEPT !.left = Some(r.self)],
              ret |-> r.ret, panic |-> r.panic]
    ELSE IF is_some(self.right) /\ unwrap(self.right).key = key
    THEN remove_right(self)
    ELSE IF is_some(self.right) /\ key > self.key
    THEN LET r == remove_descendent(unwrap(self.right), key)
         IN  [self |-> [self EXCEPT !.right = Some(r.self)],
              ret |-> r.ret, panic |-> r.panic]
    ELSE [self |-> self, ret |-> None, panic |-> FALSE]

\* fn remove_descendent(&mut self, key: &K) -> Option<V>
\* Both descent tests compare  *key < self.key , as the source does.
remove_descendent(self, key) ==
    IF is_some(self.left) /\ unwrap(self.left).key = key
    THEN remove_left(self)
    ELSE IF is_some(self.left) /\ key < self.key
    THEN LET r == remove_descendent(unwrap(self.left), key)
         IN  [self |-> [self EXCEPT !.left = Some(r.self)],
              ret |-> r.ret, panic |-> r.panic]
    ELSE IF is_some(self.right) /\ unwrap(self.right).key = key
    THEN remove_right(self)
    ELSE IF is_some(self.right) /\ key < self.key
    THEN LET r == remove_descendent(unwrap(self.right), key)
         IN  [self |-> [self EXCEPT !.right = Some(r.self)],
              ret |-> r.ret, panic |-> r.panic]
    ELSE [self |-> self, ret |-> None, panic |-> FALSE]

\* --------------------------------------------------------- BinaryTree
\* BinaryTree::new(): root: None
BinaryTree_new == None

\* fn get(&self, key: &K) -> Option<&V>
get(r, key) ==
    IF is_none(r) THEN None ELSE find(unwrap(r), key)

\* fn put(&mut self, key: K, value: V)
put(r, key, value) ==
    IF is_none(r)
    THEN Some(new(key, value))
    ELSE Some(append(unwrap(r), new(key, value)))

\* remove with the root test  root.key > *key  in place of  root.key != *key.
remove_root_test_greater(r, key) ==
    IF is_none(r)
    THEN [root |-> r, ret |-> None, panic |-> FALSE]
    ELSE IF unwrap(r).key > key
    THEN LET d == remove_descendent(unwrap(r), key)
         IN  [root |-> Some(d.self), ret |-> d.ret, panic |-> d.panic]
    ELSE LET removed_value == unwrap(r).value
             t == take_subtree(unwrap(r))
         IN  [root |-> t.sub, ret |-> Some(removed_value),
              panic |-> t.panic]

\* fn remove(&mut self, key: &K) -> Option<V>
remove(r, key) ==
    IF is_none(r)
    THEN [root |-> r, ret |-> None, panic |-> FALSE]
    ELSE IF unwrap(r).key # key
    THEN LET d == remove_descendent(unwrap(r), key)
         IN  [root |-> Some(d.self), ret |-> d.ret, panic |-> d.panic]
    ELSE LET removed_value == unwrap(r).value
             t == take_subtree(unwrap(r))
         IN  [root |-> t.sub, ret |-> Some(removed_value),
              panic |-> t.panic]

\* is_empty with both arms of the match answering true.
is_empty_always(r) ==
    IF is_none(r) THEN TRUE ELSE TRUE

\* fn is_empty(&self) -> bool
is_empty(r) ==
    IF is_none(r) THEN TRUE ELSE FALSE

\* clear that leaves the root in place.
clear_keeps_root(r) == r

\* fn clear(&mut self)
clear(r) == None

\* ------------------------------------------------- observing a tree
\* The nodes of a tree as <<path, key, value>>, a path being the sequence
\* of "L"/"R" turns from the root.
RECURSIVE NodesAt(_, _)
NodesAt(o, path) ==
    IF is_none(o) THEN {}
    ELSE LET n == unwrap(o)
         IN  {<< path, n.key, n.value >>}
             \cup NodesAt(n.left, Append(path, "L"))
             \cup NodesAt(n.right, Append(path, "R"))

Nodes(o) == NodesAt(o, << >>)
Size(o) == Cardinality(Nodes(o))
KeysOf(o) == {n[2] : n \in Nodes(o)}

\* The subtree hanging in the slot that `path` leads to (None when the slot
\* is empty or the path leaves the tree).
RECURSIVE SubtreeAt(_, _)
SubtreeAt(o, path) ==
    IF is_none(o) THEN None
    ELSE IF path = << >> THEN o
    ELSE IF Head(path) = "L" THEN SubtreeAt(unwrap(o).left, Tail(path))
    ELSE SubtreeAt(unwrap(o).right, Tail(path))

\* The path lookup follows to the node it answers with: Some(path), or None
\* when lookup ends on an empty slot.
RECURSIVE FindPathFrom(_, _, _)
FindPathFrom(o, key, path) ==
    IF is_none(o) THEN None
    ELSE IF key = unwrap(o).key THEN Some(path)
    ELSE IF key < unwrap(o).key
    THEN FindPathFrom(unwrap(o).left, key, Append(path, "L"))
    ELSE FindPathFrom(unwrap(o).right, key, Append(path, "R"))

FindPath(o, key) == FindPathFrom(o, key, << >>)

\* Every node of a tree, as the record it is.
RECURSIVE Subtrees(_)
Subtrees(o) ==
    IF is_none(o) THEN {}
    ELSE {unwrap(o)} \cup Subtrees(unwrap(o).left)
                     \cup Subtrees(unwrap(o).right)

\* ------------------------------------------------------------ state
VARIABLES
    root,       \* BinaryTree.root
    before,     \* root as it was when the last call started
    op,         \* the last call: [name, key, value], the arguments as Options
    ret,        \* what the last call returned (None for put and clear)
    panicked    \* an unwrap() of the last call hit None

vars == << root, before, op, ret, panicked >>

Init ==
    /\ root = BinaryTree_new
    /\ before = None
    /\ op = [name |-> "new", key |-> None, value |-> None]
    /\ ret = None
    /\ panicked = FALSE

Get ==
    /\ ~panicked
    /\ \E key \in Keys :
        /\ op' = [name |-> "get", key |-> Some(key), value |-> None]
        /\ ret' = get(root, key)
    /\ before' = root
    /\ UNCHANGED << root, panicked >>

Put ==
    /\ ~panicked
    /\ \E key \in Keys, value \in Values :
        /\ op' = [name |-> "put", key |-> Some(key), value |-> Some(value)]
        /\ root' = put(root, key, value)
    /\ before' = root
    /\ ret' = None
    /\ UNCHANGED panicked

Remove ==
    /\ ~panicked
    /\ \E key \in Keys :
        LET r == remove(root, key)
        IN  /\ op' = [name |-> "remove", key |-> Some(key), value |-> None]
            /\ root' = r.root
            /\ ret' = r.ret
            /\ panicked' = r.panic
    /\ before' = root

Clear ==
    /\ ~panicked
    /\ op' = [name |-> "clear", key |-> None, value |-> None]
    /\ root' = clear(root)
    /\ before' = root
    /\ ret' = None
    /\ UNCHANGED panicked

Next == Get \/ Put \/ Remove \/ Clear

Spec == Init /\ [][Next]_vars

\* ------------------------------------------------------------ claims
\* Shorthands for the last call.
Removed == op.name = "remove"
WasPut == op.name = "put"
Cleared == op.name = "clear"
OpKey == unwrap(op.key)
OpValue == unwrap(op.value)
HasTwoChildren(n) == is_some(n.left) /\ is_some(n.right)

\* C1: remove(k) returns exactly what get(k) returned immediately before
\* the call (Some(v) when k was retrievable with value v, None otherwise).
C1_RemoveReturnsGet ==
    Removed => ret = get(before, OpKey)

\* C2: immediately after remove(k) returns, get(k) is not found.
C2_RemovedKeyNotFound ==
    Removed => is_none(get(root, OpKey))

\* C3: removal preserves survivors: for every key j other than the removed
\* key k, get(j) after remove(k) equals get(j) before it.
C3_RemovalPreservesSurvivors ==
    Removed => \A j \in Keys \ {OpKey} : get(root, j) = get(before, j)

\* A removal of a root with two children, whose successor sits below the
\* right child, from a tree whose other keys stay retrievable.
C3_Witness ==
    /\ Removed
    /\ is_some(ret)
    /\ is_some(before)
    /\ unwrap(before).key = OpKey
    /\ HasTwoChildren(unwrap(before))
    /\ is_some(unwrap(unwrap(before).right).left)
    /\ \A j \in KeysOf(before) \ {OpKey} : is_some(get(root, j))

\* C4: immediately after put(k, v), get(k) returns v, also when k was
\* already present with another value (last write wins).
C4_PutGetRoundTrip ==
    WasPut => get(root, OpKey) = Some(OpValue)

\* A put that overwrote a different value held below the root.
C4_Witness ==
    /\ WasPut
    /\ is_some(get(before, OpKey))
    /\ get(before, OpKey) # Some(OpValue)
    /\ unwrap(before).key # OpKey
    /\ get(root, OpKey) = Some(OpValue)

\* C5: is_empty() is true exactly when the root is absent, which is exactly
\* when no key is retrievable: true for a new tree, false after any put.
C5_IsEmptyIffNothingRetrievable ==
    /\ is_empty(root) <=> is_none(root)
    /\ is_empty(root) <=> (\A k \in Keys : is_none(get(root, k)))
    /\ op.name = "new" => is_empty(root)
    /\ WasPut => ~is_empty(root)

\* A removal that collapsed a non-empty tree to the empty one.
C5_Witness ==
    /\ Removed
    /\ is_some(before)
    /\ is_empty(root)

\* C6: clear() yields a tree indistinguishable from a new one: is_empty()
\* is true and get(k) and remove(k) return not found for every key k.
C6_ClearYieldsNewTree ==
    Cleared =>
        /\ root = BinaryTree_new
        /\ is_empty(root)
        /\ \A k \in Keys :
            /\ is_none(get(root, k))
            /\ remove(root, k) =
                 [root |-> BinaryTree_new, ret |-> None, panic |-> FALSE]

\* A clear of a tree that held several keys.
C6_Witness ==
    /\ Cleared
    /\ Size(before) >= 3
    /\ is_empty(root)

\* C7: put(k, v2) on a tree in which k is already retrievable changes only
\* the value stored for k: the number of nodes, the shape of the tree and
\* every other node's key and value are unchanged.
C7_OverwriteChangesOnlyValue ==
    (WasPut /\ is_some(get(before, OpKey))) =>
        LET B == Nodes(before)
            A == Nodes(root)
        IN  /\ Size(root) = Size(before)
            /\ {<< n[1], n[2] >> : n \in A} = {<< n[1], n[2] >> : n \in B}
            /\ \A n \in B : n[2] # OpKey => n \in A
            /\ Cardinality(B \ A) <= 1
            /\ Cardinality(A \ B) <= 1
            /\ \A n \in A \ B : n[2] = OpKey /\ n[3] = OpValue

\* An overwrite with a different value in a tree of at least three nodes.
C7_Witness ==
    /\ WasPut
    /\ is_some(get(before, OpKey))
    /\ get(before, OpKey) # Some(OpValue)
    /\ Size(before) >= 3
    /\ root # before

\* C8: remove(k) for a key that is not retrievable (also on an empty tree)
\* returns not found without failing and leaves the whole tree unchanged;
\* get(k) for such a key returns not found.
C8_AbsentKeyIsNotFound ==
    /\ (Removed /\ is_none(get(before, OpKey))) =>
            (is_none(ret) /\ root = before /\ ~panicked)
    /\ (op.name = "get" /\ is_none(before)) => is_none(ret)

\* A removal of an absent key from a tree of at least three nodes.
C8_Witness ==
    /\ Removed
    /\ is_none(get(before, OpKey))
    /\ Size(before) >= 3
    /\ is_none(ret)

\* C9: no operation panics: no unwrap of the removal path is applied to an
\* absent child or an absent root.
C9_NoPanic ==
    ~panicked

\* A removal that took a node with two children out from below the root,
\* through remove_left or remove_right and take_right_min_subtree.
C9_Witness ==
    /\ Removed
    /\ ~panicked
    /\ is_some(ret)
    /\ \E n \in Nodes(before) :
        /\ n[2] = OpKey
        /\ n[1] # << >>
        /\ \E l, r \in Nodes(before) :
            l[1] = Append(n[1], "L") /\ r[1] = Append(n[1], "R")

\* C10: no two nodes of the tree carry the same key.
C10_KeysUnique ==
    Cardinality(KeysOf(root)) = Size(root)

\* The node a successful remove(k) took out: the node lookup reached for k
\* in the tree as it was, and the slot it hung in.
RemovedPath == unwrap(FindPath(before, OpKey))
RemovedNode == unwrap(SubtreeAt(before, RemovedPath))
RemovalHappened ==
    Removed /\ is_some(ret) /\ is_some(FindPath(before, OpKey))

\* A subtree with its minimum-key node (the end of its left spine) taken
\* out and that node's right subtree hung in its place.
RECURSIVE WithoutMin(_)
WithoutMin(n) ==
    IF is_none(n.left) THEN n.right
    ELSE Some([n EXCEPT !.left = WithoutMin(unwrap(n.left))])

\* C11: when a node with both children is removed (as the root or as a
\* descendant), its slot is taken by a node carrying the key and value of
\* the minimum-key node of its right subtree, with the removed node's left
\* subtree as left child and, as right child, the removed node's right
\* subtree with that minimum node removed, wherever the minimum sits.
C11_SuccessorPromotion ==
    (RemovalHappened /\ HasTwoChildren(RemovedNode)) =>
        LET n == RemovedNode
            mkv == min_key_value(unwrap(n.right))
        IN  SubtreeAt(root, RemovedPath) =
                Some([key |-> mkv[1], value |-> mkv[2],
                      left |-> n.left,
                      right |-> WithoutMin(unwrap(n.right))])

\* C12: for every node N, every key in N's left subtree is strictly less
\* than N's key and every key in N's right subtree is greater than or equal
\* to N's key.
C12_OrderingInvariant ==
    \A n \in Subtrees(root) :
        /\ \A k \in KeysOf(n.left) : k < n.key
        /\ \A k \in KeysOf(n.right) : k >= n.key

\* A removal promoted a successor from below the right child: the tree is
\* ordered with a key of a right subtree equal to the key above it.
C12_Witness ==
    /\ RemovalHappened
    /\ HasTwoChildren(RemovedNode)
    /\ \E n \in Subtrees(root) : n.key \in KeysOf(n.right)
    /\ C12_OrderingInvariant

\* C13: remove_descendent called on a node with key s for a target key k
\* greater than s removes k only when k is the key of that node's direct
\* right child; otherwise it never descends into the right child: it
\* returns none and changes nothing, even when k is held deeper in the
\* right subtree.
C13_RightDescentAsymmetry ==
    \A n \in Subtrees(root) :
        \A k \in {j \in Keys : j > n.key} :
            LET r == remove_descendent(n, k)
            IN  IF is_some(n.right) /\ unwrap(n.right).key = k
                THEN /\ r.ret = Some(unwrap(n.right).value)
                     /\ r.self.left = n.left
                     /\ r.self.right = take_subtree(unwrap(n.right)).sub
                ELSE r = [self |-> n, ret |-> None, panic |-> FALSE]

\* remove(k) went through remove_descendent on the root for a key held
\* below the root's right child, and came back with none and the tree as
\* it was.
C13_Witness ==
    /\ Removed
    /\ is_some(before)
    /\ OpKey > unwrap(before).key
    /\ is_some(get(before, OpKey))
    /\ unwrap(unwrap(before).right).key # OpKey
    /\ is_none(ret)
    /\ root = before

\* C14: when the removed node (root or descendant) has no children its slot
\* becomes empty (a childless root leaves the tree empty, is_empty() true);
\* when it has exactly one child, that child's whole subtree takes its slot
\* unchanged (for the root, the child becomes the new root); the number of
\* nodes decreases by exactly one.
C14_ZeroOneChildSplice ==
    (RemovalHappened /\ ~HasTwoChildren(RemovedNode)) =>
        LET n == RemovedNode
            only_child == IF is_some(n.left) THEN n.left ELSE n.right
        IN  /\ SubtreeAt(root, RemovedPath) = only_child
            /\ Size(root) = Size(before) - 1
            /\ (RemovedPath = << >>) => root = only_child
            /\ (RemovedPath = << >> /\ is_none(only_child))
                    => is_empty(root)

\* A left child with exactly one child, itself a parent, was removed.
C14_Witness ==
    /\ RemovalHappened
    /\ RemovedPath # << >>
    /\ RemovedPath[Len(RemovedPath)] = "L"
    /\ ~HasTwoChildren(RemovedNode)
    /\ Size(SubtreeAt(before, RemovedPath)) >= 3
    /\ Size(root) = Size(before) - 1

\* C15: for every key j different from k, get(j) after put(k, v) equals
\* get(j) before it; a put of a key that is not retrievable adds exactly one
\* childless node and moves or alters no existing node.
C15_PutPreservesOtherKeys ==
    WasPut =>
        /\ \A j \in Keys \ {OpKey} : get(root, j) = get(before, j)
        /\ is_none(get(before, OpKey)) =>
            LET B == Nodes(before)
                A == Nodes(root)
            IN  /\ B \subseteq A
                /\ Cardinality(A \ B) = 1
                /\ Size(root) = Size(before) + 1
                /\ \A n \in A \ B :
                    /\ n[2] = OpKey
                    /\ n[3] = OpValue
                    /\ SubtreeAt(root, n[1]) = Some(new(OpKey, OpValue))

\* A put of a new key hung a leaf two levels below the root, on the left of
\* its parent, in a tree of at least three nodes.
C15_Witness ==
    /\ WasPut
    /\ is_none(get(before, OpKey))
    /\ Size(before) >= 3
    /\ is_some(FindPath(root, OpKey))
    /\ Len(unwrap(FindPath(root, OpKey))) >= 2
    /\ unwrap(FindPath(root, OpKey))[Len(unwrap(FindPath(root, OpKey)))] = "L"
    /\ \A j \in KeysOf(before) : get(root, j) = get(before, j)

====
